---- MODULE Spec2Model ----
(***************************************************************************)
(* Model of main.py: the batch orchestrator main() and the per-file        *)
(* extraction step process_pdf_file().  Text is modelled as sequences of   *)
(* one-character strings, so strip() and split() are computed character by *)
(* character as Python computes them.                                      *)
(***************************************************************************)
EXTENDS Integers, Sequences, FiniteSets, TLC

\* Largest number of directory entries os.listdir returns in the model.
MaxFiles == 3

\* Largest number of lines of an oracle response in the parser specification.
MaxLines == 3

VARIABLES
    pc,             \* position of the control flow in main / process_pdf_file
    user_isdir,     \* os.path.isdir(user_input)
    listing,        \* os.listdir(user_input)
    files,          \* the matching names, in listing order
    idx,            \* position of the for loop in files
    all_dataframes, \* the accumulator of per-file tables
    df,             \* the value process_pdf_file returned
    response,       \* response.text of the current file
    log,            \* the lines printed so far
    calls,          \* the calls made so far, in order
    given,          \* what the environment did for each processed file
    output_csv      \* the output file as this run left it

vars == <<pc, user_isdir, listing, files, idx, all_dataframes, df,
          response, log, calls, given, output_csv>>

(***************************************************************************)
(* Text helpers.                                                           *)
(***************************************************************************)

NL == "\n"

PIPE == "|"

\* The characters str.strip() removes that occur in the model's alphabet.
Whitespace == {" ", "\t", "\r", "\n"}

RECURSIVE Flatten(_)
\* The concatenation of a sequence of sequences.
Flatten(ss) == IF ss = <<>> THEN <<>> ELSE Head(ss) \o Flatten(Tail(ss))

RECURSIVE Join(_, _)
\* sep.join(parts)
Join(parts, sep) ==
    IF parts = <<>> THEN <<>>
    ELSE IF Len(parts) = 1 THEN parts[1]
    ELSE parts[1] \o <<sep>> \o Join(Tail(parts), sep)

RECURSIVE LStrip(_)
\* str.lstrip()
LStrip(s) ==
    IF s # <<>> /\ Head(s) \in Whitespace THEN LStrip(Tail(s)) ELSE s

RECURSIVE RStrip(_)
\* str.rstrip()
RStrip(s) ==
    IF s # <<>> /\ s[Len(s)] \in Whitespace
    THEN RStrip(SubSeq(s, 1, Len(s) - 1))
    ELSE s

\* A strip that forgets the trailing side.
Strip_onlyLeft(s) == LStrip(s)

\* str.strip()
Strip(s) == RStrip(LStrip(s))

RECURSIVE SplitFrom(_, _, _, _, _)
\* The scan of str.split(sep): cur is the piece being read, acc the pieces read.
SplitFrom(s, sep, k, cur, acc) ==
    IF k > Len(s) THEN Append(acc, cur)
    ELSE IF s[k] = sep
         THEN SplitFrom(s, sep, k + 1, <<>>, Append(acc, cur))
         ELSE SplitFrom(s, sep, k + 1, Append(cur, s[k]), acc)

\* str.split(sep): one piece more than there are separators.
Split(s, sep) == SplitFrom(s, sep, 1, <<>>, <<>>)

\* str.lower() on the letters of the model's alphabet.
LowerChar(c) ==
    CASE c = "P" -> "p"
      [] c = "D" -> "d"
      [] c = "F" -> "f"
      [] c = "B" -> "b"
      [] OTHER -> c

Lower(s) == [k \in 1..Len(s) |-> LowerChar(s[k])]

\* str.endswith(suffix)
EndsWith(s, suffix) ==
    /\ Len(s) >= Len(suffix)
    /\ SubSeq(s, Len(s) - Len(suffix) + 1, Len(s)) = suffix

DotPdf == <<".", "p", "d", "f">>

\* f.lower().endswith('.pdf')
IsPdf(f) == EndsWith(Lower(f), DotPdf)

(***************************************************************************)
(* The schema.                                                             *)
(***************************************************************************)

CSV_COLUMNS ==
    << <<"d","o","c","g","e","n">>, <<"d","o","c","_","n","o">>, <<"f","1">>,
       <<"d","a","t","e","d","o","c">>, <<"d","o","c","_","t","i","t","l","e">>,
       <<"o","r","g","_","o","u","t">>, <<"o","r","g","_","i","n">>,
       <<"f","2">>, <<"f","3">>
    >>

NUM_COLUMNS == Len(CSV_COLUMNS)

(***************************************************************************)
(* process_pdf_file: parsing and validation.                               *)
(***************************************************************************)

\* lines = response.text.strip().split('\n')
lines(text) == Split(Strip(text), NL)

\* data = [line.split('|') for line in lines if line]
data(text) ==
    LET ls == SelectSeq(lines(text), LAMBDA line : line # <<>>)
    IN [k \in 1..Len(ls) |-> Split(ls[k], PIPE)]

\* A filter that accepts rows with at least NUM_COLUMNS fields.
valid_data_atLeast(text) ==
    SelectSeq(data(text), LAMBDA row : Len(row) >= NUM_COLUMNS)

\* valid_data = [row for row in data if len(row) == NUM_COLUMNS]
valid_data(text) ==
    SelectSeq(data(text), LAMBDA row : Len(row) = NUM_COLUMNS)

\* The absent result (None).
None == [present |-> FALSE, rows |-> <<>>]

\* pd.DataFrame(valid_data, columns=CSV_COLUMNS)
DataFrame(rows) == [present |-> TRUE, rows |-> rows]

(***************************************************************************)
(* main: concatenation and serialisation.                                  *)
(***************************************************************************)

RECURSIVE Reverse(_)
Reverse(ss) == IF ss = <<>> THEN <<>> ELSE Append(Reverse(Tail(ss)), Head(ss))

\* A concatenation that puts the latest table first.
concat_reversed(dfs) == Flatten(Reverse(dfs))

\* pd.concat(all_dataframes, ignore_index=True)
concat(dfs) == Flatten(dfs)

QUOTE == "\""

\* One field as the writer emits it: quoted when it holds the separator, the
\* quote character or a line terminator, quotes doubled.
csv_field(f) ==
    IF \E k \in 1..Len(f) : f[k] \in {PIPE, QUOTE, NL, "\r"}
    THEN <<QUOTE>>
         \o Flatten([k \in 1..Len(f) |-> IF f[k] = QUOTE THEN <<QUOTE, QUOTE>> ELSE <<f[k]>>])
         \o <<QUOTE>>
    ELSE f

csv_line(row) == Join([k \in 1..Len(row) |-> csv_field(row[k])], PIPE)

\* combined_data.to_csv(output_csv_file, sep='|', index=False, header=True)
to_csv(rows) ==
    [written |-> TRUE,
     lines |-> <<csv_line(CSV_COLUMNS)>> \o [k \in 1..Len(rows) |-> csv_line(rows[k])]]

NoFile == [written |-> FALSE, lines |-> <<>>]

\* all_dataframes before line 107 has run, and the empty list it is bound to.
Unbound == [bound |-> FALSE, list |-> <<>>]

EmptyList == [bound |-> TRUE, list |-> <<>>]

(***************************************************************************)
(* The environment: directory listings and oracle replies.                 *)
(***************************************************************************)

NameA == <<"a", ".", "p", "d", "f">>

NameB == <<"B", ".", "P", "D", "F">>

NameC == <<"c", ".", "P", "d", "f">>

NameD == <<"d", "p", "d", "f">>

NameT == <<"t", ".", "t", "x", "t">>

Names == {NameA, NameB, NameC, NameD, NameT}

\* What os.listdir can return: distinct names, in any order.
Listings ==
    UNION { { s \in [1..n -> Names] : \A i, j \in 1..n : i # j => s[i] # s[j] }
            : n \in 0..MaxFiles }

\* Lines as the oracle means them: each a tuple of fields.
RowA ==
    << <<" ", "a">>, <<"1">>, <<"0">>, <<"d">>, <<"t", " ", "x">>,
       <<"o">>, <<"i">>, <<"f">>, <<"z", " ">> >>

RowB ==
    << <<"b">>, <<"2">>, <<"0">>, <<>>, <<"t">>,
       <<"o">>, <<"i">>, <<"f">>, <<"0", "\r">> >>

RowC ==
    << <<"c">>, <<"3">>, <<"0">>, <<"d">>, <<"t">>,
       <<"o">>, <<"i">>, <<"f">>, <<"0">> >>

Short8 == SubSeq(RowC, 1, 8)

Long10 == SubSeq(RowC, 1, 5) \o << <<"u">> >> \o SubSeq(RowC, 6, 9)

EmptyLine == << <<>> >>

BlankLine == << <<" ">> >>

JunkLine == << <<"x">> >>

\* The text of a reply: fields joined by '|', lines joined by '\n'.
Render(ls) == Join([k \in 1..Len(ls) |-> Join(ls[k], PIPE)], NL)

\* The replies the oracle gives in the whole-run specification.
OracleReplies ==
    { <<RowA, RowB, Short8, RowC>>,
      <<RowC>>,
      <<RowB, RowA>>,
      <<Long10, BlankLine>>,
      <<EmptyLine>> }

\* The replies the parser specification draws from.
ParserLines == {RowA, RowB, RowC, Short8, Long10, EmptyLine, BlankLine, JunkLine}

ParserReplies == UNION { [1..n -> ParserLines] : n \in 1..MaxLines }

\* response.text: a text, or no text at all.
Text(ls) == [has_text |-> TRUE, text |-> Render(ls)]

NoText == [has_text |-> FALSE, text |-> <<>>]

Entry(kind, file) == [kind |-> kind, file |-> file]

Call(op, file, ok) == [op |-> op, file |-> file, ok |-> ok]

Given(kind, ls) == [kind |-> kind, lines |-> ls]

(***************************************************************************)
(* The whole run.                                                          *)
(***************************************************************************)

Init ==
    /\ pc = "input"
    /\ user_isdir = FALSE
    /\ listing = <<>>
    /\ files = <<>>
    /\ idx = 0
    /\ all_dataframes = Unbound
    /\ df = None
    /\ response = NoText
    /\ log = <<>>
    /\ calls = <<>>
    /\ given = <<>>
    /\ output_csv = NoFile

\* main, lines 97-108, with no return after the "No PDF files" message.
ReadInput_noReturn ==
    /\ pc = "input"
    /\ \E d \in BOOLEAN, ls \in Listings :
        /\ user_isdir' = d
        /\ IF ~d
           THEN /\ ls = <<>>
                /\ listing' = <<>>
                /\ log' = Append(log, Entry("not_a_directory", <<>>))
                /\ pc' = "exit_config"
                /\ UNCHANGED <<files, idx, all_dataframes>>
           ELSE /\ listing' = ls
                /\ files' = SelectSeq(ls, IsPdf)
                /\ log' = IF files' = <<>>
                          THEN Append(log, Entry("no_pdf_files", <<>>))
                          ELSE log
                /\ all_dataframes' = EmptyList
                /\ idx' = 1
                /\ pc' = "loop"
    /\ UNCHANGED <<df, response, calls, given, output_csv>>

\* main, lines 97-108: the prompt, the two pre-flight checks, the empty
\* accumulator.
ReadInput ==
    /\ pc = "input"
    /\ \E d \in BOOLEAN, ls \in Listings :
        /\ user_isdir' = d
        /\ IF ~d
           THEN /\ ls = <<>>
                /\ listing' = <<>>
                /\ log' = Append(log, Entry("not_a_directory", <<>>))
                /\ pc' = "exit_config"
                /\ UNCHANGED <<files, idx, all_dataframes>>
           ELSE /\ listing' = ls
                /\ files' = SelectSeq(ls, IsPdf)
                /\ IF files' = <<>>
                   THEN /\ log' = Append(log, Entry("no_pdf_files", <<>>))
                        /\ pc' = "exit_config"
                        /\ UNCHANGED <<idx, all_dataframes>>
                   ELSE /\ all_dataframes' = EmptyList
                        /\ idx' = 1
                        /\ pc' = "loop"
                        /\ UNCHANGED log
    /\ UNCHANGED <<df, response, calls, given, output_csv>>

\* An except branch that prints the validation message.
Raise_asInvalid(file, lg, kind) ==
    /\ log' = Append(lg, Entry("invalid_or_no_data", file))
    /\ df' = None
    /\ given' = Append(given, Given(kind, <<>>))
    /\ pc' = "returned"

\* The except branch of process_pdf_file, lines 81-83.
Raise(file, lg, kind) ==
    /\ log' = Append(lg, Entry("error_occurred", file))
    /\ df' = None
    /\ given' = Append(given, Given(kind, <<>>))
    /\ pc' = "returned"

\* main, lines 110-114, and process_pdf_file, lines 50-53: the loop takes the
\* next file and uploads it.
Upload ==
    /\ pc = "loop"
    /\ idx <= Len(files)
    /\ LET file == files[idx]
           lg == Append(log, Entry("uploading", file))
       IN \E ok \in BOOLEAN :
            /\ calls' = Append(calls, Call("upload_file", file, ok))
            /\ IF ok
               THEN /\ log' = Append(lg, Entry("uploaded", file))
                    /\ pc' = "generate"
                    /\ UNCHANGED <<df, given>>
               ELSE Raise(file, lg, "upload_failed")
    /\ UNCHANGED <<user_isdir, listing, files, idx, all_dataframes, response,
                   output_csv>>

\* process_pdf_file, lines 57-63: the one oracle call for the file.
Generate ==
    /\ pc = "generate"
    /\ LET file == files[idx]
       IN \/ /\ calls' = Append(calls, Call("generate_content", file, FALSE))
             /\ Raise(file, log, "oracle_failed")
             /\ UNCHANGED response
          \/ /\ calls' = Append(calls, Call("generate_content", file, TRUE))
             /\ \/ /\ response' = NoText
                   /\ given' = Append(given, Given("no_text", <<>>))
                \/ \E ls \in OracleReplies :
                   /\ response' = Text(ls)
                   /\ given' = Append(given, Given("text", ls))
             /\ pc' = "parse"
             /\ UNCHANGED <<df, log>>
    /\ UNCHANGED <<user_isdir, listing, files, idx, all_dataframes, output_csv>>

\* Lines 65-79 on a response that has a text: the value returned and the
\* message printed, without the test of line 73.
parse_text_noCheck(text) ==
    [df |-> DataFrame(valid_data(text)), message |-> "successfully_processed"]

\* Lines 65-79 on a response that has a text: the value returned and the
\* message printed.
parse_text(text) ==
    IF valid_data(text) # <<>>
    THEN [df |-> DataFrame(valid_data(text)), message |-> "successfully_processed"]
    ELSE [df |-> None, message |-> "invalid_or_no_data"]

\* process_pdf_file, lines 65-83: strip, split, validate, return; a response
\* without a text raises at line 65 and takes the except branch.
ParseValidate ==
    /\ pc = "parse"
    /\ df' = IF response.has_text THEN parse_text(response.text).df ELSE None
    /\ log' = Append(log, Entry(IF response.has_text
                                THEN parse_text(response.text).message
                                ELSE "error_occurred", files[idx]))
    /\ pc' = "returned"
    /\ UNCHANGED <<user_isdir, listing, files, idx, all_dataframes, response,
                   calls, given, output_csv>>

\* main, lines 115-117, leaving the loop as soon as a file gave no table.
Collect_stopOnNone ==
    /\ pc = "returned"
    /\ LET file == files[idx]
       IN /\ calls' = Append(calls, Call("returned", file, df.present))
          /\ IF df.present
             THEN /\ all_dataframes' =
                        [all_dataframes EXCEPT !.list = Append(@, df.rows)]
                  /\ log' = Append(log, Entry("queued", file))
                  /\ idx' = idx + 1
             ELSE /\ idx' = Len(files) + 1
                  /\ UNCHANGED <<all_dataframes, log>>
    /\ pc' = "loop"
    /\ UNCHANGED <<user_isdir, listing, files, df, response, given, output_csv>>

\* main, lines 115-117, taking the same file once more after a failure.
Collect_retry ==
    /\ pc = "returned"
    /\ LET file == files[idx]
           tried == Cardinality({j \in DOMAIN calls :
                        calls[j].op = "upload_file" /\ calls[j].file = file})
       IN /\ calls' = Append(calls, Call("returned", file, df.present))
          /\ IF df.present
             THEN /\ all_dataframes' =
                        [all_dataframes EXCEPT !.list = Append(@, df.rows)]
                  /\ log' = Append(log, Entry("queued", file))
             ELSE UNCHANGED <<all_dataframes, log>>
          /\ idx' = IF df.present \/ tried >= 2 THEN idx + 1 ELSE idx
    /\ pc' = "loop"
    /\ UNCHANGED <<user_isdir, listing, files, df, response, given, output_csv>>

\* main, lines 114-117: the returned value is appended if it is a table, and
\* the loop moves on.
Collect ==
    /\ pc = "returned"
    /\ LET file == files[idx]
       IN /\ calls' = Append(calls, Call("returned", file, df.present))
          /\ IF df.present
             THEN /\ all_dataframes' =
                        [all_dataframes EXCEPT !.list = Append(@, df.rows)]
                  /\ log' = Append(log, Entry("queued", file))
             ELSE UNCHANGED <<all_dataframes, log>>
    /\ idx' = idx + 1
    /\ pc' = "loop"
    /\ UNCHANGED <<user_isdir, listing, files, df, response, given, output_csv>>

\* main, lines 119-125, writing whatever the accumulator holds.
Finish_alwaysWrite ==
    /\ pc = "loop"
    /\ idx > Len(files)
    /\ output_csv' = to_csv(concat(all_dataframes.list))
    /\ calls' = Append(calls, Call("to_csv", <<>>, TRUE))
    /\ log' = Append(log, Entry("saved", <<>>))
    /\ pc' = "exit_saved"
    /\ UNCHANGED <<user_isdir, listing, files, idx, all_dataframes, df, response,
                   given>>

\* main, lines 119-125, reached one file too early.
Finish_early ==
    /\ pc = "loop"
    /\ idx >= Len(files)
    /\ IF all_dataframes.list # <<>>
       THEN /\ output_csv' = to_csv(concat(all_dataframes.list))
            /\ calls' = Append(calls, Call("to_csv", <<>>, TRUE))
            /\ log' = Append(log, Entry("saved", <<>>))
            /\ pc' = "exit_saved"
       ELSE /\ log' = Append(log, Entry("no_valid_data", <<>>))
            /\ pc' = "exit_nodata"
            /\ UNCHANGED <<output_csv, calls>>
    /\ UNCHANGED <<user_isdir, listing, files, idx, all_dataframes, df, response,
                   given>>

\* main, lines 119-125: after the loop, one write if anything was queued.
Finish ==
    /\ pc = "loop"
    /\ idx > Len(files)
    /\ IF all_dataframes.list # <<>>
       THEN /\ output_csv' = to_csv(concat(all_dataframes.list))
            /\ calls' = Append(calls, Call("to_csv", <<>>, TRUE))
            /\ log' = Append(log, Entry("saved", <<>>))
            /\ pc' = "exit_saved"
       ELSE /\ log' = Append(log, Entry("no_valid_data", <<>>))
            /\ pc' = "exit_nodata"
            /\ UNCHANGED <<output_csv, calls>>
    /\ UNCHANGED <<user_isdir, listing, files, idx, all_dataframes, df, response,
                   given>>

Next == ReadInput \/ Upload \/ Generate \/ ParseValidate \/ Collect \/ Finish

Spec == Init /\ [][Next]_vars

(***************************************************************************)
(* The parser on its own: process_pdf_file at line 65, on one file, with   *)
(* any reply of up to MaxLines lines drawn from ParserLines.               *)
(***************************************************************************)

InitParse ==
    /\ pc = "parse"
    /\ user_isdir = TRUE
    /\ listing = <<NameA>>
    /\ files = <<NameA>>
    /\ idx = 1
    /\ all_dataframes = EmptyList
    /\ df = None
    /\ \/ response = NoText /\ given = <<Given("no_text", <<>>)>>
       \/ \E ls \in ParserReplies :
            response = Text(ls) /\ given = <<Given("text", ls)>>
    /\ log = <<Entry("uploading", NameA), Entry("uploaded", NameA)>>
    /\ calls = <<Call("upload_file", NameA, TRUE),
                 Call("generate_content", NameA, TRUE)>>
    /\ output_csv = NoFile

NextParse == ParseValidate \/ Collect \/ Finish

SpecParse == InitParse /\ [][NextParse]_vars

(***************************************************************************)
(* What the properties are stated against: the oracle's lines as it meant  *)
(* them (given), the directory as listed, the calls in the order made.     *)
(***************************************************************************)

\* The names of Names that end in ".pdf", whatever the case.
PdfNames == {NameA, NameB, NameC}

AfterLoop == {"exit_saved", "exit_nodata"}

Terminal == {"exit_config", "exit_saved", "exit_nodata"}

\* The lines of a reply that have exactly nine fields, in order.
NineFieldLines(ls) == SelectSeq(ls, LAMBDA l : Len(l) = 9)

\* A line that holds a character other than whitespace.
NonBlank(l) == \E c \in 1..Len(Join(l, PIPE)) : Join(l, PIPE)[c] \notin Whitespace

\* The nine-field lines of a reply after strip() has acted on the whole text:
\* the first non-blank line has lost the whitespace its first field began with,
\* the last non-blank line the whitespace its last field ended with.
StrippedRows(ls) ==
    LET solid == {j \in 1..Len(ls) : NonBlank(ls[j])}
        first(j) == j \in solid /\ \A i \in solid : j <= i
        last(j) == j \in solid /\ \A i \in solid : i <= j
        left(j) == IF first(j) THEN [ls[j] EXCEPT ![1] = LStrip(@)] ELSE ls[j]
        both(j) == IF last(j) THEN [left(j) EXCEPT ![Len(ls[j])] = RStrip(@)]
                   ELSE left(j)
    IN NineFieldLines([j \in 1..Len(ls) |-> both(j)])

\* A row with the whitespace around its first and last field left out.
Trimmed(row) ==
    IF row = <<>> THEN row
    ELSE LET l == [row EXCEPT ![1] = LStrip(@)]
         IN [l EXCEPT ![Len(row)] = RStrip(@)]

\* The positions of the calls of one kind for one file.
CallsOf(op, file) ==
    {j \in DOMAIN calls : calls[j].op = op /\ calls[j].file = file}

\* The number of log entries of one kind for one file.
Logged(kind, file) ==
    Cardinality({j \in DOMAIN log : log[j] = Entry(kind, file)})

\* process_pdf_file has returned for the k-th file.
Processed(k) == k < idx \/ (k = idx /\ pc = "returned")

\* process_pdf_file returned None for the k-th file.
Skipped(k) ==
    \/ k = idx /\ pc = "returned" /\ ~df.present
    \/ \E j \in CallsOf("returned", files[k]) : ~calls[j].ok

\* The table each processed file contributes, empty if its result was absent.
Tables ==
    [k \in 1..Len(given) |->
        IF Processed(k) /\ ~Skipped(k) THEN StrippedRows(given[k].lines) ELSE <<>>]

ScenarioA == <<RowA, RowB, Short8, RowC>>

\* Some step of the run can be taken.  ParseValidate has the guard
\* pc = "parse" and nothing else.
CanStep ==
    \/ pc = "parse"
    \/ ENABLED (ReadInput \/ Upload \/ Generate \/ Collect \/ Finish)

(***************************************************************************)
(* The properties.                                                         *)
(***************************************************************************)

\* C1: whatever each file's outcome (upload fails, oracle call fails, no valid
\* row, some valid rows), the loop never ends early: the run is never stuck
\* before a terminal position, after the loop every file of the enumeration
\* has been handed to process_pdf_file exactly once, and every valid row of
\* every file is in the aggregate.
C1_FailureNeverAbortsRun ==
    /\ pc \notin Terminal => CanStep
    /\ pc \in AfterLoop =>
        /\ Len(given) = Len(files)
        /\ \A k \in 1..Len(files) :
            /\ Cardinality(CallsOf("upload_file", files[k])) = 1
            /\ Cardinality(CallsOf("returned", files[k])) = 1
            /\ \A r \in 1..Len(NineFieldLines(given[k].lines)) :
                \E a \in 1..Len(Flatten(all_dataframes.list)) :
                    Flatten(all_dataframes.list)[a] = StrippedRows(given[k].lines)[r]

\* C1 witness: file 1 answers three valid rows and one malformed row, file 2's
\* oracle call fails, and the file written holds the header and those 3 rows.
C1_Witness ==
    /\ pc = "exit_saved"
    /\ Len(files) = 2
    /\ given[1] = Given("text", ScenarioA)
    /\ given[2].kind = "oracle_failed"
    /\ Flatten(all_dataframes.list) = StrippedRows(ScenarioA)
    /\ Len(output_csv.lines) = 4

\* C2: once a reply is parsed, the rows of the table are, one for one and in
\* order, the reply's nine-field lines: a line with another number of fields
\* gives no row, and the rows of the nine-field lines are there whatever was
\* excluded around them.
C2_RowIffNineFields ==
    (pc # "parse" /\ given[1].kind = "text") =>
        LET want == NineFieldLines(given[1].lines)
        IN /\ Len(df.rows) = Len(want)
           /\ \A k \in 1..Len(want) :
                /\ Len(df.rows[k]) = 9
                /\ Trimmed(df.rows[k]) = Trimmed(want[k])

\* C2 witness: a reply with a ten-field line, an eight-field line and a valid
\* line has been parsed into a table of one row.
C2_Witness ==
    /\ pc = "returned"
    /\ given[1].kind = "text"
    /\ \E i, j, k \in 1..Len(given[1].lines) :
        /\ given[1].lines[i] = Long10
        /\ given[1].lines[j] = Short8
        /\ Len(given[1].lines[k]) = 9
    /\ df.present
    /\ Len(df.rows) = 1

\* C3: the aggregate is the concatenation, in file order, of the tables of the
\* files whose result was not absent, each with its valid lines in the order
\* of the reply; the written file holds the header and exactly those rows.
C3_AggregateIsOrderedConcatenation ==
    /\ pc \in {"loop", "generate", "parse", "returned"} \cup AfterLoop =>
        /\ Flatten(all_dataframes.list) =
             Flatten([k \in 1..Len(given) |-> IF k < idx THEN Tables[k] ELSE <<>>])
        /\ all_dataframes.list =
             SelectSeq([k \in 1..Len(given) |-> IF k < idx THEN Tables[k] ELSE <<>>],
                       LAMBDA t : t # <<>>)
    /\ pc = "exit_saved" =>
        output_csv.lines =
            <<csv_line(CSV_COLUMNS)>>
            \o [r \in 1..Len(Flatten(Tables)) |-> csv_line(Flatten(Tables)[r])]

\* C3 witness: three files, the second one skipped, the first and the third
\* with different tables, and the output written.
C3_Witness ==
    /\ pc = "exit_saved"
    /\ Len(files) = 3
    /\ given[1] = Given("text", ScenarioA)
    /\ given[2].kind = "upload_failed"
    /\ given[3] = Given("text", <<RowB, RowA>>)
    /\ Len(all_dataframes.list) = 2
    /\ Len(output_csv.lines) = 6

\* C4: after the loop the output file is written exactly when some file gave a
\* valid row; otherwise the run ends with the "no valid data" message and no
\* file; a written file holds the header and at least one data row.
C4_WrittenIffSomeValidRow ==
    /\ output_csv.written =>
        /\ pc = "exit_saved"
        /\ Len(output_csv.lines) >= 2
        /\ output_csv.lines[1] = csv_line(CSV_COLUMNS)
    /\ pc \in AfterLoop =>
        LET some == \E k \in 1..Len(given) : NineFieldLines(given[k].lines) # <<>>
        IN /\ output_csv.written <=> some
           /\ pc = "exit_saved" <=> some
           /\ pc = "exit_nodata" <=> log[Len(log)] = Entry("no_valid_data", <<>>)
           /\ pc = "exit_saved" <=> log[Len(log)] = Entry("saved", <<>>)

\* C4 witness: every file was skipped, one by a failure and one by a reply
\* without a valid row, and the run ended with no output file.
C4_Witness ==
    /\ pc = "exit_nodata"
    /\ Len(files) >= 2
    /\ \E k \in 1..Len(given) : given[k].kind = "text"
    /\ \E k \in 1..Len(given) : given[k].kind = "oracle_failed"
    /\ ~output_csv.written

\* C5: when the path is not a directory, or no listed name ends in ".pdf"
\* whatever the case, main prints the configuration message and stops: no
\* upload, no oracle call, no accumulator, no output file.
C5_ConfigErrorStopsAtOnce ==
    (pc # "input" /\ (~user_isdir \/ \A j \in 1..Len(listing) : listing[j] \notin PdfNames)) =>
        /\ pc = "exit_config"
        /\ ~CanStep
        /\ calls = <<>>
        /\ all_dataframes = Unbound
        /\ ~output_csv.written
        /\ log = <<Entry(IF user_isdir THEN "no_pdf_files" ELSE "not_a_directory", <<>>)>>

\* C5 witness: a directory with entries, none of them a PDF, has stopped the
\* run.
C5_Witness ==
    /\ pc = "exit_config"
    /\ user_isdir
    /\ Len(listing) = 2
    /\ log = <<Entry("no_pdf_files", <<>>)>>

\* C6: a reply without a nine-field line gives None, never a table without
\* rows, and no table without rows is ever in the accumulator.
C6_NoRowsMeansAbsent ==
    /\ (pc # "parse" /\ given[1].kind = "text"
            /\ NineFieldLines(given[1].lines) = <<>>) => df = None
    /\ df.present => df.rows # <<>>
    /\ \A k \in 1..Len(all_dataframes.list) : all_dataframes.list[k] # <<>>

\* C6 witness: a reply of empty and blank lines only has been parsed and
\* None returned.
C6_Witness ==
    /\ pc = "returned"
    /\ given[1] = Given("text", <<EmptyLine, BlankLine, EmptyLine>>)
    /\ df = None

\* C7 as stated: every nine-field line is a row whose fields are the line's
\* fields unchanged, wherever the line stands in the reply.
C7_FieldsUnchanged ==
    (pc # "parse" /\ given[1].kind = "text") =>
        df.rows = NineFieldLines(given[1].lines)

\* C7 amended: every nine-field line is a row, in order, with its fields
\* unchanged except for what strip() removes from the whole reply: the
\* whitespace the first field of the first non-blank line begins with and the
\* whitespace the last field of the last non-blank line ends with.
C7_FieldsUnchangedUpToStrip ==
    (pc # "parse" /\ given[1].kind = "text") =>
        /\ df.rows = StrippedRows(given[1].lines)
        /\ Len(df.rows) = Len(NineFieldLines(given[1].lines))

\* C7 witness: the first line of the reply is a valid line whose first field
\* begins with a blank, and it is a row without that blank.
C7_Witness ==
    /\ pc = "returned"
    /\ given[1].kind = "text"
    /\ Len(given[1].lines) >= 2
    /\ given[1].lines[1] = RowA
    /\ given[1].lines[2] = RowA
    /\ df.present
    /\ df.rows[1][1] = <<"a">>
    /\ df.rows[2][1] = <<" ", "a">>

\* C8: the output file is written at most once, by the last call of the run,
\* after process_pdf_file has returned for every file; nothing happens after
\* the write.
C8_SingleWriteAtEnd ==
    /\ Cardinality({j \in DOMAIN calls : calls[j].op = "to_csv"}) <= 1
    /\ output_csv.written <=> \E j \in DOMAIN calls : calls[j].op = "to_csv"
    /\ \A j \in DOMAIN calls : calls[j].op = "to_csv" =>
        /\ j = Len(calls)
        /\ pc = "exit_saved"
        /\ ~CanStep
        /\ \A k \in 1..Len(files) :
            \E i \in CallsOf("returned", files[k]) : i < j

\* C8 witness: a run over several files has ended with its one write.
C8_Witness ==
    /\ pc = "exit_saved"
    /\ Len(files) >= 2
    /\ calls[Len(calls)].op = "to_csv"
    /\ output_csv.written

\* C9: a skipped file gets exactly one diagnostic: the "error occurred" entry
\* and not the "invalid or no data" entry when the upload or the oracle
\* failed, the "invalid or no data" entry and not the "error occurred" entry
\* when the reply had no valid row; the returned value is None in both cases.
C9_SkipCauseIsLogged ==
    \A k \in 1..Len(files) : (Processed(k) /\ Skipped(k)) =>
        /\ (k = idx /\ pc = "returned") => df = None
        /\ IF given[k].kind = "text"
           THEN /\ Logged("invalid_or_no_data", files[k]) = 1
                /\ Logged("error_occurred", files[k]) = 0
           ELSE /\ Logged("error_occurred", files[k]) = 1
                /\ Logged("invalid_or_no_data", files[k]) = 0

\* C9 witness: one file was skipped for a failed oracle call and another for
\* a reply without a valid row.
C9_Witness ==
    /\ pc \in AfterLoop
    /\ \E k \in 1..Len(files) : Skipped(k) /\ given[k].kind = "oracle_failed"
    /\ \E k \in 1..Len(files) : Skipped(k) /\ given[k].kind = "text"

\* C10: the files are taken one at a time in enumeration order, each once:
\* the n-th upload is the upload of the n-th file, an oracle call directly
\* follows the successful upload of its file and happens at most once, an
\* upload follows the return of the file before it, and after the loop every
\* file has had exactly one upload.
C10_SequentialOncePerFile ==
    /\ \A i, j \in 1..Len(files) : i # j => files[i] # files[j]
    /\ \A j \in DOMAIN calls :
        /\ calls[j].op = "upload_file" =>
            LET n == Cardinality({i \in 1..j : calls[i].op = "upload_file"})
            IN /\ n <= Len(files)
               /\ calls[j].file = files[n]
               /\ j > 1 => /\ calls[j - 1].op = "returned"
                           /\ n > 1
                           /\ calls[j - 1].file = files[n - 1]
        /\ calls[j].op = "generate_content" =>
            /\ j > 1
            /\ calls[j - 1] = Call("upload_file", calls[j].file, TRUE)
    /\ \A k \in 1..Len(files) :
        /\ Cardinality(CallsOf("upload_file", files[k])) <= 1
        /\ Cardinality(CallsOf("generate_content", files[k])) <= 1
        /\ pc \in AfterLoop => Cardinality(CallsOf("upload_file", files[k])) = 1

\* C10 witness: three files, the first with a failed upload, the second with
\* a failed oracle call, the third with a reply, all processed.
C10_Witness ==
    /\ pc \in AfterLoop
    /\ Len(files) = 3
    /\ given[1].kind = "upload_failed"
    /\ given[2].kind = "oracle_failed"
    /\ given[3].kind = "text"
    /\ Len(calls) >= 8

====
